---- MODULE Spec2Model ----
(***************************************************************************)
(* Tile-mosaic video generators: the crossfade generator                   *)
(* (animated_mosaic.py, create_animated_mosaic) and the beat-synchronized  *)
(* generator (mittag_video_part_2.py, create_tiled_transition_video),      *)
(* together with the region sampler get_random_tile, and the static       *)
(* mosaic builder (random_tiles.py, create_consistent_mosaic).             *)
(*                                                                         *)
(* Images are records [id, h, w]; the pixel of image i at row r, column c  *)
(* is the code Pixel(i, r, c) > 0, and 0 is a black pixel.  A tile, a crop *)
(* and the canvas are matrices: sequences of rows of pixel codes.          *)
(* Rates are kept in thousandths, random.random() is drawn from the grid   *)
(* {0, 1/UGrid, ..., (UGrid-1)/UGrid}.                                     *)
(***************************************************************************)
EXTENDS Integers, Sequences, FiniteSets, TLC

VARIABLES
    mode,               \* "crossfade" (animated_mosaic.py) or "beat" (mittag_video_part_2.py)
    tile_width, tile_height,        \* TILE_SIZE
    output_width, output_height,    \* OUTPUT_DIMS
    dir_A, dir_B,       \* the source directories on disk: [exists, files]
    audio,              \* the audio file on disk: [exists, ok, onsets (ms)]
    pc,                 \* position of the run in the generator function
    error,              \* "none", or what ended the run early
    source_images_A, source_images_B,   \* the loaded pools (beat mode: source_images is A)
    beat_frames,        \* result of detect_beats
    output_image,       \* the canvas; <<>> before it is allocated
    tile_positions,     \* the slot list
    grid_y, grid_x,     \* loop variables y, x of the grid build loop
    frame_num,          \* loop variable of the frame loop
    plan,               \* the step's plan: [planned, u, count]
    replaced,           \* iterations of the replacement loop done in this frame
    last_rep,           \* the last replacement: [done, frame, u, pool, slot, src]
    frames_written,     \* number of video_writer.write calls
    last_frame,         \* the canvas handed to the last video_writer.write
    writer,             \* "none", "open", "released"
    raw_video,          \* file at OUTPUT_VIDEO_PATH: "absent", "raw", "final"
    ffmpeg,             \* "not_run", "ok", "failed" (non-zero exit), "not_found"
    sampler,            \* a stand-alone get_random_tile call: [stage, source_images, is_sky, result]
    console,            \* what the run printed about a failed ffmpeg run (a set of items)
    mosaic              \* the last cell of create_consistent_mosaic (random_tiles.py)

vars == << mode, tile_width, tile_height, output_width, output_height, dir_A, dir_B,
           audio, pc, error, source_images_A, source_images_B, beat_frames,
           output_image, tile_positions, grid_y, grid_x, frame_num, plan, replaced,
           last_rep, frames_written, last_frame, writer, raw_video, ffmpeg, sampler,
           console, mosaic >>

----------------------------------------------------------------------------
(* Bounds of the model *)

\* total_frames = VIDEO_DURATION_SECONDS * FPS; the source has 180 * 30 and 90 * 30
VIDEO_DURATION_SECONDS == 3
FPS == 1
\* the interpreter's recursion limit: the nested call at this depth raises RecursionError
RecursionLimit == 3
\* random.random() is drawn from {k / UGrid : k \in 0..UGrid-1}
UGrid == 3

(* Program constants *)

\* HORIZON_RATIO = 0.6 = 3/5
HORIZON_NUM == 3
HORIZON_DEN == 5
\* replacement rates in thousandths: 0.001 and 2 (crossfade), 10.0 and 10.0 (beat)
START_REPLACEMENT_RATE_A == 1
END_REPLACEMENT_RATE_A == 2000
START_REPLACEMENT_RATE_M == 10000
END_REPLACEMENT_RATE_M == 10000

----------------------------------------------------------------------------
(* Images, pixels, matrices *)

Image(i, hh, ww) == [id |-> i, h |-> hh, w |-> ww]

Pixel(img, r, c) == img.id * 100 + r * 10 + c + 1

Min(a, b) == IF a < b THEN a ELSE b
Max(a, b) == IF a > b THEN a ELSE b

\* np.zeros((rows, cols, 3)): a black matrix
Zeros(rows, cols) == [r \in 1..rows |-> [c \in 1..cols |-> 0]]

\* img[y0:y1, x0:x1] for 0 <= y0, 0 <= x0: numpy clips a slice at the array's edge
Slice(img, y0, y1, x0, x1) ==
    LET rows == Max(0, Min(y1, img.h) - y0)
        cols == Max(0, Min(x1, img.w) - x0)
    IN  [r \in 1..rows |-> [c \in 1..cols |-> Pixel(img, y0 + r - 1, x0 + c - 1)]]

\* shape of a matrix as <<rows, cols>>
Shape(m) == << Len(m), IF Len(m) = 0 THEN 0 ELSE Len(m[1]) >>

\* faulty variant: row and column offsets exchanged
Paste_Swapped(canvas, y, x, tile) ==
    [r \in 1..Len(canvas) |->
        [c \in 1..Len(canvas[r]) |->
            IF /\ r - 1 >= x /\ r - 1 < x + Len(tile)
               /\ c - 1 >= y /\ c - 1 < y + Len(tile[1])
            THEN tile[r - x][c - y]
            ELSE canvas[r][c]]]

\* canvas[y:y+th, x:x+tw] = tile, for a tile of exactly that shape
Paste(canvas, y, x, tile) ==
    [r \in 1..Len(canvas) |->
        [c \in 1..Len(canvas[r]) |->
            IF /\ r - 1 >= y /\ r - 1 < y + Len(tile)
               /\ c - 1 >= x /\ c - 1 < x + Len(tile[1])
            THEN tile[r - y][c - x]
            ELSE canvas[r][c]]]

\* int(height * HORIZON_RATIO)
HorizonY(height) == (height * HORIZON_NUM) \div HORIZON_DEN

----------------------------------------------------------------------------
(* get_random_tile, animated_mosaic.py 41-64 *)

NoTile == <<>>

\* the vertical sampling range of one source image for a zone (lines 49-56)
SampleMinY(img, is_sky) ==
    IF is_sky THEN 0 ELSE Min(HorizonY(img.h), img.h - tile_height)

\* faulty variant: the sky range reaches down to the source horizon itself
SampleMaxY_ToHorizon(img, is_sky) ==
    IF is_sky THEN Max(0, HorizonY(img.h)) ELSE img.h - tile_height

SampleMaxY(img, is_sky) ==
    IF is_sky THEN Max(0, HorizonY(img.h) - tile_height) ELSE img.h - tile_height

\* the guard of the retry branch (line 58)
RegionTooSmall(img, is_sky) == SampleMinY(img, is_sky) >= SampleMaxY(img, is_sky)

\* the crops of lines 62-64 from one chosen image
CropsOf(img, is_sky, depth) ==
    { [kind |-> "crop", tile |-> Slice(img, y, y + tile_height, x, x + tile_width),
       src |-> img.id, x |-> x, y |-> y, retries |-> depth] :
        x \in 0..(img.w - tile_width),
        y \in SampleMinY(img, is_sky)..SampleMaxY(img, is_sky) }

RecursionError(depth) ==
    [kind |-> "RecursionError", tile |-> NoTile, src |-> 0, x |-> 0, y |-> 0,
     retries |-> depth]

\* faulty variant: the black tile allocated with width and height swapped
BlackTile_Swapped(depth) ==
    [kind |-> "black", tile |-> Zeros(tile_width, tile_height), src |-> 0,
     x |-> 0, y |-> 0, retries |-> depth]

BlackTile(depth) ==
    [kind |-> "black", tile |-> Zeros(tile_height, tile_width), src |-> 0,
     x |-> 0, y |-> 0, retries |-> depth]

\* Every outcome of get_random_tile(source_images, is_sky) entered at recursion
\* depth `depth`: the call recurses with no attempt counter of its own, so the
\* only end of a chain of retries is the interpreter's RecursionError.
RECURSIVE GetRandomTile(_, _, _)
GetRandomTile(source_images, is_sky, depth) ==
    IF depth >= RecursionLimit THEN { RecursionError(depth) }
    ELSE IF Len(source_images) = 0 THEN { BlackTile(depth) }
    ELSE UNION { IF RegionTooSmall(source_images[i], is_sky)
                 THEN GetRandomTile(source_images, is_sky, depth + 1)
                 ELSE CropsOf(source_images[i], is_sky, depth) :
                 i \in 1..Len(source_images) }

get_random_tile(source_images, is_sky) == GetRandomTile(source_images, is_sky, 0)

----------------------------------------------------------------------------
(* Loading: load_source_images, load_and_resize_images, detect_beats *)

\* a file of a source directory: cv2.imread gives None (ok = FALSE) or an image
Unreadable == [ok |-> FALSE, img |-> Image(0, 0, 0)]
File(img) == [ok |-> TRUE, img |-> img]

MissingDir == [exists |-> FALSE, files |-> <<>>]
Dir(files) == [exists |-> TRUE, files |-> files]

\* [img for img in source_images if img is not None and img.shape[0] >= tile_height
\*  and img.shape[1] >= tile_width]
RECURSIVE ValidImages(_, _, _)
ValidImages(files, th, tw) ==
    IF files = <<>> THEN <<>>
    ELSE (IF Head(files).ok /\ Head(files).img.h >= th /\ Head(files).img.w >= tw
          THEN << Head(files).img >> ELSE <<>>)
         \o ValidImages(Tail(files), th, tw)

\* animated_mosaic.py 24-38
load_source_images(directory, th, tw) ==
    IF ~directory.exists THEN <<>>
    ELSE IF directory.files = <<>> THEN <<>>
    ELSE ValidImages(directory.files, th, tw)

\* cv2.resize(img, size), size = (width, height): an image of that shape
Resize(img, size) == Image(img.id + 10, size[2], size[1])

\* the loop of mittag_video_part_2.py 61-66
RECURSIVE ResizedImages(_, _)
ResizedImages(files, size) ==
    IF files = <<>> THEN <<>>
    ELSE (IF Head(files).ok THEN << Resize(Head(files).img, size) >> ELSE <<>>)
         \o ResizedImages(Tail(files), size)

\* mittag_video_part_2.py 48-69
load_and_resize_images(directory, size) ==
    IF ~directory.exists THEN <<>>
    ELSE IF directory.files = <<>> THEN <<>>
    ELSE ResizedImages(directory.files, size)

MissingAudio == [exists |-> FALSE, ok |-> FALSE, onsets |-> {}]
CorruptAudio == [exists |-> TRUE, ok |-> FALSE, onsets |-> {}]
Audio(onset_ms) == [exists |-> TRUE, ok |-> TRUE, onsets |-> onset_ms]

\* mittag_video_part_2.py 24-45; onset times in milliseconds, int(time * fps)
detect_beats(audio_file, fps) ==
    IF ~audio_file.exists THEN {}
    ELSE IF ~audio_file.ok THEN {}
    ELSE { (t * fps) \div 1000 : t \in audio_file.onsets }

----------------------------------------------------------------------------
(* The replacement scheduler *)

total_frames == VIDEO_DURATION_SECONDS * FPS

StartRate == IF mode = "beat" THEN START_REPLACEMENT_RATE_M ELSE START_REPLACEMENT_RATE_A
EndRate == IF mode = "beat" THEN END_REPLACEMENT_RATE_M ELSE END_REPLACEMENT_RATE_A

\* current_rate = START + (END - START) * frame_num / total_frames, as the
\* fraction RateNum(f) / RateDen (rates are in thousandths)
RateNum(f) == StartRate * total_frames + (EndRate - StartRate) * f
RateDen == 1000 * total_frames

\* int(current_rate)
guaranteed_replacements(f) == RateNum(f) \div RateDen

\* faulty variant: random.random() <= fractional_chance
additional_replacement_Inclusive(f, k) ==
    IF k * RateDen <= (RateNum(f) % RateDen) * UGrid THEN 1 ELSE 0

\* random.random() < fractional_chance, for the draw u = k / UGrid
additional_replacement(f, k) ==
    IF k * RateDen < (RateNum(f) % RateDen) * UGrid THEN 1 ELSE 0

tiles_to_replace(f, k) == guaranteed_replacements(f) + additional_replacement(f, k)

\* faulty variant: random.random() <= progress
SelectedPool_Inclusive(f, k) == IF k * total_frames <= f * UGrid THEN "B" ELSE "A"

\* random.random() < progress, for the draw u = k / UGrid (animated_mosaic.py 133-136)
SelectedPool(f, k) == IF k * total_frames < f * UGrid THEN "B" ELSE "A"

----------------------------------------------------------------------------
(* The run of a generator *)

NoPlan == [planned |-> FALSE, u |-> 0, count |-> 0]
NoRep == [done |-> FALSE, frame |-> 0, u |-> 0, pool |-> "none", slot |-> 0, src |-> 0]
NoResult == [kind |-> "none", tile |-> NoTile, src |-> 0, x |-> 0, y |-> 0, retries |-> 0]
IdleSampler == [stage |-> "idle", source_images |-> <<>>, is_sky |-> FALSE,
                result |-> NoResult]

\* no cell of the static mosaic handled yet
NoCell == [zone |-> "none", x |-> 0, y |-> 0, src |-> Image(0, 0, 0), placed |-> FALSE,
           fallback |-> FALSE, sample_min_y |-> 0, sample_max_y |-> 0,
           random_x |-> 0, random_y |-> 0]

Slot(x, y, is_sky) == [x |-> x, y |-> y, is_sky |-> is_sky]

\* the state of a run before its first statement
RunStart ==
    /\ pc = "load" /\ error = "none"
    /\ source_images_A = <<>> /\ source_images_B = <<>>
    /\ beat_frames = {}
    /\ output_image = <<>> /\ tile_positions = <<>>
    /\ grid_y = 0 /\ grid_x = 0 /\ frame_num = 0
    /\ plan = NoPlan /\ replaced = 0 /\ last_rep = NoRep
    /\ frames_written = 0 /\ last_frame = <<>>
    /\ writer = "none" /\ raw_video = "absent" /\ ffmpeg = "not_run"
    /\ sampler = IdleSampler
    /\ console = {}
    /\ mosaic = NoCell

\* (tile_width, tile_height, output_width, output_height)
CrossfadeDims == { <<2, 2, 3, 5>>, <<2, 2, 1, 5>>, <<2, 2, 3, 4>> }
BeatDims == { <<2, 2, 4, 2>>, <<2, 2, 1, 1>> }

DirsA == { MissingDir, Dir(<< Unreadable, File(Image(9, 1, 1)) >>),
           Dir(<< File(Image(1, 6, 2)) >>),
           Dir(<< File(Image(1, 6, 2)), File(Image(2, 2, 2)) >>) }
DirsB == { MissingDir, Dir(<<>>), Dir(<< File(Image(9, 1, 2)) >>),
           Dir(<< File(Image(3, 6, 2)), Unreadable, File(Image(4, 2, 2)) >>) }
DirsM == { MissingDir, Dir(<<>>), Dir(<< Unreadable >>),
           Dir(<< File(Image(1, 3, 3)), Unreadable, File(Image(2, 1, 1)) >>) }
Audios == { MissingAudio, CorruptAudio, Audio({}), Audio({0}), Audio({1500}),
            Audio({400, 2000}) }

Init ==
    /\ RunStart
    /\ \/ /\ mode = "crossfade"
          /\ \E d \in CrossfadeDims :
                /\ tile_width = d[1] /\ tile_height = d[2]
                /\ output_width = d[3] /\ output_height = d[4]
          /\ dir_A \in DirsA /\ dir_B \in DirsB
          /\ audio = MissingAudio
       \/ /\ mode = "beat"
          /\ \E d \in BeatDims :
                /\ tile_width = d[1] /\ tile_height = d[2]
                /\ output_width = d[3] /\ output_height = d[4]
          /\ dir_A \in DirsM /\ dir_B = MissingDir
          /\ audio \in Audios

config == << mode, tile_width, tile_height, output_width, output_height,
             dir_A, dir_B, audio >>

\* faulty variant: the run goes on when only one of the two pools is empty
PoolsLoaded_Either(A, B) == IF mode = "beat" THEN A # <<>> ELSE A # <<>> \/ B # <<>>

\* the test before the early return (animated_mosaic.py 79: not A or not B;
\* mittag_video_part_2.py 83: not source_images)
PoolsLoaded(A, B) == IF mode = "beat" THEN A # <<>> ELSE A # <<>> /\ B # <<>>

\* lines 72-86 of animated_mosaic.py, 77-92 of mittag_video_part_2.py:
\* load the pools, return on an empty one, else allocate the canvas
Load ==
    /\ pc = "load"
    /\ LET A == IF mode = "beat"
                THEN load_and_resize_images(dir_A, << tile_width, tile_height >>)
                ELSE load_source_images(dir_A, tile_height, tile_width)
           B == IF mode = "beat" THEN <<>>
                ELSE load_source_images(dir_B, tile_height, tile_width)
           ok == PoolsLoaded(A, B)
       IN  /\ source_images_A' = A
           /\ source_images_B' = B
           /\ IF ok
              THEN /\ pc' = "build" /\ error' = "none"
                   /\ beat_frames' = IF mode = "beat" THEN detect_beats(audio, FPS) ELSE {}
                   /\ output_image' = Zeros(output_height, output_width)
              ELSE /\ pc' = "exit" /\ error' = "no_images"
                   /\ UNCHANGED << beat_frames, output_image >>
    /\ UNCHANGED << config, tile_positions, grid_y, grid_x, frame_num, plan, replaced,
                    last_rep, frames_written, last_frame, writer, raw_video, ffmpeg,
                    sampler, console, mosaic >>

\* the tile of one grid cell or one replacement: a get_random_tile outcome
\* (crossfade), or random.choice(source_images) (beat)
TileOutcomes(pool, is_sky) ==
    IF mode = "beat"
    THEN { [kind |-> "crop", tile |-> Slice(pool[i], 0, pool[i].h, 0, pool[i].w),
            src |-> pool[i].id, x |-> 0, y |-> 0, retries |-> 0] :
            i \in 1..Len(pool) }
    ELSE get_random_tile(pool, is_sky)

\* output_image[y:y+th, x:x+tw] = tile raises ValueError on a tile of another shape
Assignable(tile) == Shape(tile) = << tile_height, tile_width >>

\* faulty variant: a slot touching the horizon row is tagged sky
IsSky_Touching(y) == IF mode = "beat" THEN FALSE
                     ELSE y + tile_height <= HorizonY(output_height)

\* is_sky of a grid cell (animated_mosaic.py 91); the beat generator has no zones
IsSky(y) == IF mode = "beat" THEN FALSE
            ELSE y + tile_height < HorizonY(output_height)

\* faulty variant: the bounds test left out, so partial edge cells become slots
CellFits_NoTest(x, y) == TRUE

\* the bounds test of the grid loop (animated_mosaic.py 96, mittag_video_part_2.py 98)
CellFits(x, y) == y + tile_height <= output_height /\ x + tile_width <= output_width

\* the grid loop's next (y, x), or its end
GridAdvance ==
    IF grid_x + tile_width < output_width
    THEN /\ grid_x' = grid_x + tile_width /\ grid_y' = grid_y /\ pc' = "build"
    ELSE IF grid_y + tile_height < output_height
    THEN /\ grid_x' = 0 /\ grid_y' = grid_y + tile_height /\ pc' = "build"
    ELSE /\ grid_x' = 0 /\ grid_y' = 0 /\ pc' = "open"

\* one iteration of the grid build loop (animated_mosaic.py 89-98,
\* mittag_video_part_2.py 95-103)
GridCell ==
    /\ pc = "build"
    /\ LET x == grid_x
           y == grid_y
           is_sky == IsSky(y)
           sampled == mode = "crossfade" \/ CellFits(x, y)
       IN  IF ~sampled
           THEN /\ GridAdvance
                /\ UNCHANGED << output_image, tile_positions, error >>
           ELSE \E res \in TileOutcomes(source_images_A, is_sky) :
                IF res.kind = "RecursionError"
                THEN /\ pc' = "crashed" /\ error' = "RecursionError"
                     /\ UNCHANGED << output_image, tile_positions, grid_x, grid_y >>
                ELSE IF ~CellFits(x, y)
                THEN /\ GridAdvance
                     /\ UNCHANGED << output_image, tile_positions, error >>
                ELSE IF ~Assignable(res.tile)
                THEN /\ pc' = "crashed" /\ error' = "ValueError"
                     /\ UNCHANGED << output_image, tile_positions, grid_x, grid_y >>
                ELSE /\ output_image' = Paste(output_image, y, x, res.tile)
                     /\ tile_positions' =
                            Append(tile_positions,
                                   IF mode = "beat" THEN [x |-> x, y |-> y]
                                   ELSE Slot(x, y, is_sky))
                     /\ GridAdvance
                     /\ error' = error
    /\ UNCHANGED << config, source_images_A, source_images_B, beat_frames, frame_num,
                    plan, replaced, last_rep, frames_written, last_frame, writer,
                    raw_video, ffmpeg, sampler, console, mosaic >>

\* faulty variant: the frame loop is skipped, as with a frame count of zero
OpenWriter_NoFrames ==
    /\ pc = "open"
    /\ writer' = "open"
    /\ raw_video' = "raw"
    /\ frame_num' = 0
    /\ pc' = "release"
    /\ UNCHANGED << mode, tile_width, tile_height, output_width, output_height,
                    dir_A, dir_B, audio, error, source_images_A, source_images_B,
                    beat_frames, output_image, tile_positions, grid_y, grid_x, plan,
                    replaced, last_rep, frames_written, last_frame, ffmpeg, sampler, console, mosaic >>

\* video_writer = cv2.VideoWriter(...) (animated_mosaic.py 100-106,
\* mittag_video_part_2.py 105-111): the raw video file is created
OpenWriter ==
    /\ pc = "open"
    /\ writer' = "open"
    /\ raw_video' = "raw"
    /\ frame_num' = 0
    /\ pc' = IF total_frames > 0 THEN "frame" ELSE "release"
    /\ UNCHANGED << config, error, source_images_A, source_images_B, beat_frames,
                    output_image, tile_positions, grid_y, grid_x, plan, replaced,
                    last_rep, frames_written, last_frame, ffmpeg, sampler, console, mosaic >>

\* faulty variant: every frame treated as a beat frame
SkipFrame_Never == FALSE

\* `if frame_num in beat_frames:` (mittag_video_part_2.py 115); the crossfade
\* generator has no such test (animated_mosaic.py 106-120)
SkipFrame == mode = "beat" /\ frame_num \notin beat_frames

\* the head of a frame: the replacement count of the step
\* (animated_mosaic.py 108-120, mittag_video_part_2.py 113-127)
PlanStep ==
    /\ pc = "frame"
    /\ IF SkipFrame
       THEN /\ plan' = NoPlan
            /\ pc' = "write"
       ELSE \E k \in 0..(UGrid - 1) :
            /\ plan' = [planned |-> TRUE, u |-> k, count |-> tiles_to_replace(frame_num, k)]
            /\ pc' = IF tiles_to_replace(frame_num, k) > 0 THEN "replace" ELSE "write"
    /\ replaced' = 0
    /\ UNCHANGED << config, error, source_images_A, source_images_B, beat_frames,
                    output_image, tile_positions, grid_y, grid_x, frame_num, last_rep,
                    frames_written, last_frame, writer, raw_video, ffmpeg, sampler, console, mosaic >>

\* the replacement loop's next iteration, or its end
ReplaceAdvance ==
    /\ replaced' = replaced + 1
    /\ pc' = IF replaced + 1 < plan.count THEN "replace" ELSE "write"

\* faulty variant: the empty-list test left out
NoPositions_NoTest == FALSE

\* `if not tile_positions: continue` (animated_mosaic.py 124-125,
\* mittag_video_part_2.py 131-132)
NoPositions == tile_positions = <<>>

\* one iteration of the replacement loop (animated_mosaic.py 123-140,
\* mittag_video_part_2.py 130-142)
Replace ==
    /\ pc = "replace"
    /\ IF NoPositions
       THEN /\ ReplaceAdvance
            /\ UNCHANGED << output_image, last_rep, error >>
       ELSE IF Len(tile_positions) = 0
       THEN \* random.choice of an empty list raises IndexError
            /\ pc' = "crashed" /\ error' = "IndexError"
            /\ UNCHANGED << output_image, last_rep, replaced >>
       ELSE \E p \in 1..Len(tile_positions), k \in 0..(UGrid - 1) :
            LET pos_info == tile_positions[p]
                is_sky == IF mode = "beat" THEN FALSE ELSE pos_info.is_sky
                sel == IF mode = "beat" THEN "A" ELSE SelectedPool(frame_num, k)
                selected_sources == IF sel = "B" THEN source_images_B
                                    ELSE source_images_A
            IN  \E res \in TileOutcomes(selected_sources, is_sky) :
                IF res.kind = "RecursionError"
                THEN /\ pc' = "crashed" /\ error' = "RecursionError"
                     /\ UNCHANGED << output_image, last_rep, replaced >>
                ELSE IF ~Assignable(res.tile)
                THEN /\ pc' = "crashed" /\ error' = "ValueError"
                     /\ UNCHANGED << output_image, last_rep, replaced >>
                ELSE /\ output_image' = Paste(output_image, pos_info.y, pos_info.x, res.tile)
                     /\ last_rep' = [done |-> TRUE, frame |-> frame_num,
                                     u |-> IF mode = "beat" THEN 0 ELSE k,
                                     pool |-> sel, slot |-> p, src |-> res.src]
                     /\ ReplaceAdvance
                     /\ error' = error
    /\ UNCHANGED << config, source_images_A, source_images_B, beat_frames,
                    tile_positions, grid_y, grid_x, frame_num, plan,
                    frames_written, last_frame, writer, raw_video, ffmpeg, sampler, console, mosaic >>

\* video_writer.write(output_image) and the frame loop's increment
\* (animated_mosaic.py 143-144, mittag_video_part_2.py 145-146)
WriteFrame ==
    /\ pc = "write"
    /\ frames_written' = frames_written + 1
    /\ last_frame' = output_image
    /\ frame_num' = frame_num + 1
    /\ pc' = IF frame_num + 1 < total_frames THEN "frame" ELSE "release"
    /\ UNCHANGED << config, error, source_images_A, source_images_B, beat_frames,
                    output_image, tile_positions, grid_y, grid_x, plan, replaced,
                    last_rep, writer, raw_video, ffmpeg, sampler, console, mosaic >>

\* video_writer.release() (animated_mosaic.py 147, mittag_video_part_2.py 149)
Release ==
    /\ pc = "release"
    /\ writer' = "released"
    /\ pc' = "ffmpeg"
    /\ UNCHANGED << config, error, source_images_A, source_images_B, beat_frames,
                    output_image, tile_positions, grid_y, grid_x, frame_num, plan,
                    replaced, last_rep, frames_written, last_frame, raw_video, ffmpeg,
                    sampler, console, mosaic >>

\* str(e) of the exception a failed subprocess.run raises: CalledProcessError
\* gives "Command ... returned non-zero exit status N"; its captured stdout and
\* stderr are attributes that nothing prints.  FileNotFoundError (no ffmpeg)
\* gives the errno text and the file name.
ExceptionText(outcome) ==
    IF outcome = "nonzero" THEN { "command", "returncode" } ELSE { "errno", "filename" }

\* the file at OUTPUT_VIDEO_PATH after the ffmpeg run: replaced by the converted
\* file only after a good run (animated_mosaic.py 165, mittag_video_part_2.py 185-186)
RawVideoAfter(outcome) == IF outcome = "ok" THEN "final" ELSE raw_video

\* the ffmpeg run and what follows it (animated_mosaic.py 150-167: check=True,
\* capture_output=True and no handler, so the exception ends the run with a
\* traceback; mittag_video_part_2.py 152-190: the exception is caught and
\* printed, and the raw file is named)
Transcode ==
    /\ pc = "ffmpeg"
    /\ \E outcome \in { "ok", "nonzero", "not_found" } :
          /\ raw_video' = RawVideoAfter(outcome)
          /\ IF outcome = "ok"
             THEN /\ ffmpeg' = "ok"
                  /\ pc' = "exit" /\ error' = error /\ console' = console
             ELSE /\ ffmpeg' = IF outcome = "nonzero" THEN "failed" ELSE "not_found"
                  /\ IF mode = "beat"
                     THEN /\ pc' = "exit" /\ error' = "ffmpeg_failed"
                          /\ console' = ExceptionText(outcome) \cup { "raw_path" }
                     ELSE /\ pc' = "crashed"
                          /\ error' = IF outcome = "nonzero" THEN "CalledProcessError"
                                      ELSE "FileNotFoundError"
                          /\ console' = ExceptionText(outcome) \cup { "traceback" }
    /\ UNCHANGED << config, source_images_A, source_images_B, beat_frames,
                    output_image, tile_positions, grid_y, grid_x, frame_num, plan,
                    replaced, last_rep, frames_written, last_frame, writer, sampler,
                    mosaic >>

Next ==
    \/ Load
    \/ GridCell
    \/ OpenWriter
    \/ PlanStep
    \/ Replace
    \/ WriteFrame
    \/ Release
    \/ Transcode

Spec == Init /\ [][Next]_vars

----------------------------------------------------------------------------
(* The grid build loop on drawn canvas and tile sizes *)

MaxGridCells == 6

\* (tile_width, tile_height, output_width, output_height)
GridDims ==
    { d \in (1..2) \X (1..2) \X (1..4) \X ((1..5) \cup {10}) :
        (d[3] \div d[1]) * (d[4] \div d[2]) <= MaxGridCells }

\* a pool of one image with both zones samplable for the tile size
GridDir(i, tw, th) == Dir(<< File(Image(i, IF th = 1 THEN 4 ELSE 6, tw)) >>)

InitGrid ==
    /\ RunStart
    /\ mode \in { "crossfade", "beat" }
    /\ \E d \in GridDims :
          /\ tile_width = d[1] /\ tile_height = d[2]
          /\ output_width = d[3] /\ output_height = d[4]
          /\ dir_A = GridDir(1, d[1], d[2])
          /\ dir_B = IF mode = "beat" THEN MissingDir ELSE GridDir(2, d[1], d[2])
    /\ audio = MissingAudio

NextGrid == Load \/ GridCell

SpecGrid == InitGrid /\ [][NextGrid]_vars

----------------------------------------------------------------------------
(* Stand-alone calls of get_random_tile on drawn inputs *)

TileSizes == { <<1, 1>>, <<2, 2>>, <<2, 1>> }      \* (width, height)

SamplerImages ==
    { Image(1, 1, 2), Image(2, 2, 2), Image(3, 3, 2), Image(4, 5, 3), Image(5, 6, 2) }

\* pools as load_source_images leaves them: every image at least the tile size
FitsTile(img) == img.h >= tile_height /\ img.w >= tile_width

SeqsUpTo(S, n) == UNION { [1..k -> S] : k \in 0..n }

MaxPool == 2

InitSampler ==
    /\ mode = "sampler"
    /\ \E ts \in TileSizes : tile_width = ts[1] /\ tile_height = ts[2]
    /\ output_width = 0 /\ output_height = 0
    /\ dir_A = MissingDir /\ dir_B = MissingDir /\ audio = MissingAudio
    /\ pc = "sampler" /\ error = "none"
    /\ source_images_A = <<>> /\ source_images_B = <<>>
    /\ beat_frames = {}
    /\ output_image = <<>> /\ tile_positions = <<>>
    /\ grid_y = 0 /\ grid_x = 0 /\ frame_num = 0
    /\ plan = NoPlan /\ replaced = 0 /\ last_rep = NoRep
    /\ frames_written = 0 /\ last_frame = <<>>
    /\ writer = "none" /\ raw_video = "absent" /\ ffmpeg = "not_run"
    /\ sampler = IdleSampler
    /\ console = {}
    /\ mosaic = NoCell

runVars == << config, pc, error, source_images_A, source_images_B, beat_frames,
              output_image, tile_positions, grid_y, grid_x, frame_num, plan, replaced,
              last_rep, frames_written, last_frame, writer, raw_video, ffmpeg,
              console, mosaic >>

\* the caller picks the arguments: a pool and a zone
SamplerArgs ==
    /\ pc = "sampler"
    /\ sampler.stage = "idle"
    /\ \E pool \in SeqsUpTo({ i \in SamplerImages : FitsTile(i) }, MaxPool),
          sky \in BOOLEAN :
          sampler' = [stage |-> "called", source_images |-> pool, is_sky |-> sky,
                      result |-> NoResult]
    /\ UNCHANGED runVars

\* get_random_tile(source_images, is_sky) runs to its end
SamplerCall ==
    /\ pc = "sampler"
    /\ sampler.stage = "called"
    /\ \E res \in get_random_tile(sampler.source_images, sampler.is_sky) :
          sampler' = [sampler EXCEPT !.stage = "ended", !.result = res]
    /\ UNCHANGED runVars

NextSampler == SamplerArgs \/ SamplerCall

SpecSampler == InitSampler /\ [][NextSampler]_vars

----------------------------------------------------------------------------
(* The static mosaic builder: create_consistent_mosaic, random_tiles.py 13-86 *)

\* the three-way test of lines 55, 57 and 59 on the slot's top edge y
MosaicZone(y) ==
    IF y + tile_height < HorizonY(output_height) THEN "sky"
    ELSE IF y > HorizonY(output_height) THEN "field"
    ELSE "crossing"

\* int(tile_height * ((output_horizon_y - y) / tile_height)) of lines 62 and 64.
\* The code computes it in floating point, where a quotient that is rounded
\* down can lose one (tile height 22 gives 14 for 15); for the tile heights of
\* this model, 1 and 2, the quotient and the product are exact.
HorizonInTile(y) == (tile_height * (HorizonY(output_height) - y)) \div tile_height

\* (sample_min_y, sample_max_y) as lines 55-65 leave them
MosaicRange(img, y) ==
    LET source_horizon_y == HorizonY(img.h)
    IN  IF MosaicZone(y) = "sky" THEN << 0, source_horizon_y - tile_height >>
        ELSE IF MosaicZone(y) = "field"
        THEN << source_horizon_y, img.h - tile_height >>
        ELSE << source_horizon_y - HorizonInTile(y),
                source_horizon_y - HorizonInTile(y) >>

\* the test of line 68
MosaicInvalid(range) == range[1] >= range[2] \/ range[1] < 0 \/ range[2] < 0

\* the range after the fallback of lines 68-70
MosaicFinalRange(img, y) ==
    IF MosaicInvalid(MosaicRange(img, y)) THEN << 0, img.h - tile_height >>
    ELSE MosaicRange(img, y)

\* the two nested range() loops of lines 39-40: the next (y, x), or the end
MosaicAdvance ==
    IF grid_x + tile_width < output_width
    THEN /\ grid_x' = grid_x + tile_width /\ grid_y' = grid_y /\ pc' = "cell"
    ELSE IF grid_y + tile_height < output_height
    THEN /\ grid_x' = 0 /\ grid_y' = grid_y + tile_height /\ pc' = "cell"
    ELSE /\ grid_x' = 0 /\ grid_y' = 0 /\ pc' = "save"

\* lines 21-36: the source directory is checked, its files are listed (any
\* file, readable as an image or not) and the canvas is allocated
MosaicValidate ==
    /\ pc = "validate"
    /\ IF ~dir_A.exists
       THEN /\ pc' = "exit" /\ error' = "missing_dir" /\ output_image' = output_image
       ELSE IF dir_A.files = <<>>
       THEN /\ pc' = "exit" /\ error' = "no_images" /\ output_image' = output_image
       ELSE /\ pc' = "cell" /\ error' = error
            /\ output_image' = Zeros(output_height, output_width)
    /\ UNCHANGED << config, source_images_A, source_images_B, beat_frames,
                    tile_positions, grid_y, grid_x, frame_num, plan, replaced,
                    last_rep, frames_written, last_frame, writer, raw_video, ffmpeg,
                    sampler, console, mosaic >>

\* one iteration of the loop body, lines 41-82
MosaicCell ==
    /\ pc = "cell"
    /\ \E i \in 1..Len(dir_A.files) :
          LET f == dir_A.files[i]
              source_img == f.img
              y == grid_y
              x == grid_x
          IN  IF ~f.ok \/ source_img.h < tile_height \/ source_img.w < tile_width
              THEN /\ mosaic' = [NoCell EXCEPT !.zone = "skipped", !.x = x, !.y = y]
                   /\ output_image' = output_image
              ELSE LET range == MosaicFinalRange(source_img, y)
                   IN  \E random_x \in 0..(source_img.w - tile_width),
                          random_y \in range[1]..range[2] :
                          /\ mosaic' = [zone |-> MosaicZone(y), x |-> x, y |-> y,
                                        src |-> source_img, placed |-> CellFits(x, y),
                                        fallback |-> MosaicInvalid(MosaicRange(source_img, y)),
                                        sample_min_y |-> range[1],
                                        sample_max_y |-> range[2],
                                        random_x |-> random_x, random_y |-> random_y]
                          /\ output_image' =
                                IF CellFits(x, y)
                                THEN Paste(output_image, y, x,
                                           Slice(source_img, random_y, random_y + tile_height,
                                                 random_x, random_x + tile_width))
                                ELSE output_image
    /\ MosaicAdvance
    /\ UNCHANGED << config, error, source_images_A, source_images_B, beat_frames,
                    tile_positions, frame_num, plan, replaced, last_rep,
                    frames_written, last_frame, writer, raw_video, ffmpeg, sampler,
                    console >>

\* cv2.imwrite(OUTPUT_IMAGE_PATH, output_image), line 85
MosaicSave ==
    /\ pc = "save"
    /\ pc' = "exit"
    /\ last_frame' = output_image
    /\ UNCHANGED << config, error, source_images_A, source_images_B, beat_frames,
                    output_image, tile_positions, grid_y, grid_x, frame_num, plan,
                    replaced, last_rep, frames_written, writer, raw_video, ffmpeg,
                    sampler, console, mosaic >>

\* (tile_width, tile_height, output_width, output_height)
MosaicDims == { <<2, 2, 2, 5>>, <<2, 2, 3, 3>>, <<2, 1, 2, 3>> }

MosaicDirs ==
    { MissingDir, Dir(<<>>),
      Dir(<< Unreadable, File(Image(1, 6, 3)), File(Image(2, 1, 1)) >>),
      Dir(<< File(Image(3, 2, 2)), File(Image(4, 10, 2)) >>) }

InitMosaic ==
    /\ mode = "mosaic"
    /\ \E d \in MosaicDims :
          /\ tile_width = d[1] /\ tile_height = d[2]
          /\ output_width = d[3] /\ output_height = d[4]
    /\ dir_A \in MosaicDirs /\ dir_B = MissingDir /\ audio = MissingAudio
    /\ pc = "validate" /\ error = "none"
    /\ source_images_A = <<>> /\ source_images_B = <<>>
    /\ beat_frames = {}
    /\ output_image = <<>> /\ tile_positions = <<>>
    /\ grid_y = 0 /\ grid_x = 0 /\ frame_num = 0
    /\ plan = NoPlan /\ replaced = 0 /\ last_rep = NoRep
    /\ frames_written = 0 /\ last_frame = <<>>
    /\ writer = "none" /\ raw_video = "absent" /\ ffmpeg = "not_run"
    /\ sampler = IdleSampler
    /\ console = {}
    /\ mosaic = NoCell

NextMosaic == MosaicValidate \/ MosaicCell \/ MosaicSave

SpecMosaic == InitMosaic /\ [][NextMosaic]_vars

----------------------------------------------------------------------------
(* Claims *)

\* the phase of a run: INIT once the grid is built, STEPPING while the video
\* writer is open, DONE once it is released
Phase ==
    IF writer = "released" THEN "DONE"
    ELSE IF writer = "open" THEN "STEPPING"
    ELSE IF pc = "open" THEN "INIT"
    ELSE "START"

PhaseOrder ==
    { << "START", "START" >>, << "START", "INIT" >>, << "INIT", "STEPPING" >>,
      << "STEPPING", "STEPPING" >>, << "STEPPING", "DONE" >>, << "DONE", "DONE" >> }

\* C1: a run passes through its phases only in the order INIT -> STEPPING -> DONE:
\* every step keeps the phase or moves it to the next one; while STEPPING the
\* frame index only stays or grows by one and equals the number of frames
\* emitted; DONE is entered only from STEPPING with all total_frames frames
\* emitted; once DONE the canvas is neither written nor emitted again.
C1_PhaseOrder ==
    [][ /\ << Phase, Phase' >> \in PhaseOrder
        /\ (Phase = "STEPPING" /\ Phase' = "STEPPING") =>
              /\ frame_num' \in { frame_num, frame_num + 1 }
              /\ frames_written' = frame_num'
              /\ frame_num' <= total_frames
        /\ (Phase # "DONE" /\ Phase' = "DONE") =>
              /\ total_frames > 0
              /\ frames_written = total_frames
              /\ frame_num = total_frames
        /\ Phase = "DONE" =>
              /\ output_image' = output_image
              /\ frames_written' = frames_written
              /\ last_frame' = last_frame
              /\ tile_positions' = tile_positions
      ]_vars

C1_Witness ==
    /\ mode = "crossfade" /\ Phase = "DONE" /\ pc = "exit"
    /\ frames_written = total_frames /\ last_rep.done

\* the slots of the grid as the claim describes them
SlotsDisjoint(a, b) ==
    \/ a.x + tile_width <= b.x \/ b.x + tile_width <= a.x
    \/ a.y + tile_height <= b.y \/ b.y + tile_height <= a.y

\* C2: the grid build loop produces exactly floor(H/th) * floor(W/tw) slots;
\* every slot has x a multiple of tw and y a multiple of th, lies inside the
\* canvas, and no two slots overlap (partial edge cells are dropped).
C2_GridSlots ==
    /\ \A i \in 1..Len(tile_positions) :
          LET s == tile_positions[i]
          IN  /\ s.x % tile_width = 0 /\ s.y % tile_height = 0
              /\ s.x >= 0 /\ s.y >= 0
              /\ s.x + tile_width <= output_width
              /\ s.y + tile_height <= output_height
              /\ \A j \in 1..Len(tile_positions) :
                    i # j => SlotsDisjoint(s, tile_positions[j])
    /\ pc = "open" =>
          Len(tile_positions) =
              (output_height \div tile_height) * (output_width \div tile_width)

C2_Witness ==
    /\ pc = "open"
    /\ output_width % tile_width # 0 /\ output_height % tile_height # 0
    /\ Len(tile_positions) >= 2

\* C3: every slot is tagged sky exactly when y + tileHeight < canvasHorizonY,
\* canvasHorizonY = floor(canvasHeight * 3/5): a slot with y + tileHeight =
\* canvasHorizonY - 1 is sky, a slot with y = canvasHorizonY is field, a slot
\* that straddles or touches the horizon row is field; and a slot, once
\* created, never changes.
C3_ZoneTags ==
    /\ [](mode = "crossfade" =>
            \A i \in 1..Len(tile_positions) :
               LET s == tile_positions[i]
                   canvasHorizonY == (output_height * 3) \div 5
               IN  /\ s.is_sky = (s.y + tile_height < canvasHorizonY)
                   /\ s.y + tile_height = canvasHorizonY - 1 => s.is_sky
                   /\ s.y = canvasHorizonY => ~s.is_sky
                   /\ (s.y <= canvasHorizonY /\ canvasHorizonY <= s.y + tile_height)
                         => ~s.is_sky)
    /\ [][ \A i \in 1..Len(tile_positions) :
              /\ i <= Len(tile_positions')
              /\ tile_positions'[i] = tile_positions[i] ]_vars

C3_Witness ==
    /\ mode = "crossfade" /\ last_rep.done
    /\ \E i, j \in 1..Len(tile_positions) :
          LET s == tile_positions[i]
              t == tile_positions[j]
              canvasHorizonY == (output_height * 3) \div 5
          IN  /\ s.y + tile_height = canvasHorizonY - 1 /\ s.is_sky
              /\ t.y < canvasHorizonY /\ canvasHorizonY < t.y + tile_height
              /\ ~t.is_sky

\* C4: for a non-empty pool of images at least the tile size, and either
\* zone, a get_random_tile call returns a crop of exactly tile_height rows by
\* tile_width columns.
C4_ReturnsTileSizedCrop ==
    (sampler.stage = "ended" /\ sampler.source_images # <<>>) =>
        /\ sampler.result.kind = "crop"
        /\ Shape(sampler.result.tile) = << tile_height, tile_width >>

\* C5: the retries of a get_random_tile call are bounded by the call itself:
\* it ends by returning a tile or by its own explicit failure, never by
\* running into the interpreter's recursion limit.
C5_BoundedRetries ==
    sampler.stage = "ended" =>
        /\ sampler.result.kind \in { "crop", "black", "RegionUnsatisfiable" }
        /\ sampler.result.retries < RecursionLimit

\* C6: the replacement count of a step is whole + 1 if the draw u satisfies
\* u < rate - whole and whole otherwise, for rate = startRate + (endRate -
\* startRate) * frame_num / total_frames and whole = floor(rate); it is a
\* non-negative integer in {whole, whole + 1} and equals rate when rate is an
\* integer.
C6_StochasticRounding ==
    (plan.planned /\ pc \in { "replace", "write" }) =>
        LET den == 1000 * total_frames
            num == StartRate * total_frames + (EndRate - StartRate) * frame_num
            whole == num \div den
        IN  /\ plan.count = IF plan.u * den < (num - whole * den) * UGrid
                            THEN whole + 1 ELSE whole
            /\ plan.count >= 0
            /\ plan.count \in { whole, whole + 1 }
            /\ num = whole * den => plan.count * den = num

C6_Witness ==
    /\ plan.planned /\ pc = "write" /\ mode = "crossfade"
    /\ replaced = plan.count /\ plan.count = 2 /\ plan.u > 0

ImageIds(pool) == { pool[i].id : i \in 1..Len(pool) }

\* C7: in two-pool mode a replacement draws its tile from pool B exactly when
\* its draw u satisfies u < progress = frame / total_frames, and from pool A
\* otherwise; at progress 0 no replacement draws from pool B.
C7_PoolBias ==
    (mode = "crossfade" /\ last_rep.done) =>
        /\ last_rep.pool \in { "A", "B" }
        /\ last_rep.pool = "B" <=> last_rep.u * total_frames < last_rep.frame * UGrid
        /\ last_rep.pool = "B" => last_rep.src \in ImageIds(source_images_B)
        /\ last_rep.pool = "A" => last_rep.src \in ImageIds(source_images_A)
        /\ last_rep.frame = 0 => last_rep.pool = "A"

C7_Witness ==
    /\ mode = "crossfade" /\ last_rep.done /\ last_rep.pool = "B" /\ last_rep.u > 0
    /\ last_rep.src \in ImageIds(source_images_B)

\* C8: called with an empty pool, for either zone, get_random_tile returns
\* without retrying a tile of tile_height rows by tile_width columns in which
\* every pixel is 0.
C8_EmptyPoolBlackTile ==
    (sampler.stage = "ended" /\ sampler.source_images = <<>>) =>
        /\ sampler.result.kind = "black"
        /\ sampler.result.retries = 0
        /\ Len(sampler.result.tile) = tile_height
        /\ \A r \in 1..Len(sampler.result.tile) :
              /\ Len(sampler.result.tile[r]) = tile_width
              /\ \A c \in 1..Len(sampler.result.tile[r]) : sampler.result.tile[r][c] = 0

C8_Witness ==
    /\ sampler.stage = "ended" /\ sampler.source_images = <<>> /\ sampler.is_sky
    /\ sampler.result.kind = "black" /\ tile_width # tile_height

\* C9: with an empty slot list an iteration of the replacement loop leaves the
\* canvas unchanged and raises nothing, the loop reaches its end after the
\* planned count of iterations, and the frame is emitted with the canvas
\* unchanged.
C9_EmptySlotsNoOp ==
    [][ /\ (pc = "replace" /\ tile_positions = <<>>) =>
              /\ output_image' = output_image
              /\ error' = "none"
              /\ replaced' = replaced + 1
              /\ pc' = IF replaced + 1 < plan.count THEN "replace" ELSE "write"
        /\ (pc = "write" /\ tile_positions = <<>>) =>
              /\ frames_written' = frames_written + 1
              /\ last_frame' = output_image
              /\ output_image' = output_image
      ]_vars

C9_Witness ==
    /\ tile_positions = <<>> /\ frames_written >= 1
    /\ plan.planned /\ plan.count >= 1 /\ replaced = plan.count
    /\ last_frame = output_image /\ output_image # <<>>

\* a directory with no usable image: missing, or holding no readable file
\* (of at least the tile size, where the loader filters by size)
ZeroUsable(dir, bySize) ==
    \/ ~dir.exists
    \/ \A i \in 1..Len(dir.files) :
          \/ ~dir.files[i].ok
          \/ bySize /\ (dir.files[i].img.h < tile_height \/ dir.files[i].img.w < tile_width)

\* C10: if a required source directory is missing or a required pool has no
\* usable image, the run reports the error and ends before any canvas work:
\* no canvas, no slot, no video writer, no frame, no transcode.
C10_AbortBeforeCanvas ==
    (IF mode = "beat" THEN ZeroUsable(dir_A, FALSE)
     ELSE ZeroUsable(dir_A, TRUE) \/ ZeroUsable(dir_B, TRUE)) =>
        /\ pc \in { "load", "exit" }
        /\ pc = "exit" => error = "no_images"
        /\ output_image = <<>> /\ tile_positions = <<>>
        /\ writer = "none" /\ raw_video = "absent"
        /\ frames_written = 0 /\ last_frame = <<>>
        /\ ffmpeg = "not_run"

C10_Witness ==
    /\ mode = "crossfade" /\ pc = "exit" /\ error = "no_images"
    /\ ~ZeroUsable(dir_A, TRUE) /\ ~dir_B.exists

-----------------------------------------------------------------------------
\* C11: when the ffmpeg run fails after all frames were written, the failure is
\* reported together with the output captured from ffmpeg, and the raw video is
\* still at its path, in both generators.
C11_FailureReported ==
    ffmpeg = "failed" =>
        /\ frames_written = total_frames
        /\ "stderr" \in console
        /\ raw_video = "raw"

-----------------------------------------------------------------------------
\* C12: in the beat-synchronized generator the membership of the frame index in
\* the beat set alone decides whether a frame replaces tiles.  On a frame that
\* is not a beat no count is planned, nothing is drawn, and the frame written is
\* the canvas as the previous frame left it; on a beat frame the count is
\* planned from the replacement rate.  With an empty beat set the canvas never
\* changes once the grid is built, so every frame written is the initial grid.
C12_Step ==
    mode = "beat" =>
        /\ pc = "frame" /\ frame_num \notin beat_frames =>
              /\ plan' = NoPlan /\ pc' = "write"
              /\ output_image' = output_image
              /\ last_rep' = last_rep /\ sampler' = sampler
        /\ pc = "frame" /\ frame_num \in beat_frames =>
              /\ plan'.planned
              /\ \E k \in 0..(UGrid - 1) : plan'.count = tiles_to_replace(frame_num, k)
              /\ pc' \in { "replace", "write" }
        /\ pc = "write" /\ ~plan.planned =>
              /\ frames_written' = frames_written + 1
              /\ last_frame' = output_image
              /\ frames_written > 0 => last_frame' = last_frame
        /\ pc = "replace" => plan.planned /\ frame_num \in beat_frames
        /\ beat_frames = {} /\ pc \in { "frame", "replace", "write", "release", "ffmpeg" } =>
              /\ output_image' = output_image
              /\ last_rep' = NoRep
              /\ last_frame' \in { last_frame, output_image }

C12_BeatGate == [][C12_Step]_vars

\* a frame that is not a beat is about to be written after an earlier beat frame
\* replaced tiles
C12_Witness ==
    /\ mode = "beat" /\ pc = "write"
    /\ frame_num \notin beat_frames /\ beat_frames # {}
    /\ ~plan.planned /\ last_rep.done
    /\ frames_written > 0 /\ last_frame = output_image

-----------------------------------------------------------------------------
\* the pixel at row r, column c (from 1) lies in the tile rectangle of slot s
InSlot(s, r, c) ==
    /\ r - 1 >= s.y /\ r - 1 < s.y + tile_height
    /\ c - 1 >= s.x /\ c - 1 < s.x + tile_width

\* the two canvases agree everywhere outside the tile rectangle of slot s
SameOutside(old, new, s) ==
    /\ Shape(new) = Shape(old)
    /\ \A r \in 1..Len(old) : \A c \in 1..Len(old[r]) :
          InSlot(s, r, c) \/ new[r][c] = old[r][c]

\* C13: a replacement step with planned count n changes the canvas only inside
\* tile rectangles of slots of the slot list, and of at most n of them: once the
\* grid is built the canvas changes only in an iteration of the replacement
\* loop, each iteration is counted, the count never passes n, and an iteration
\* changes pixels inside one slot's rectangle only.  The slot list, both pools
\* and the tile size stay as they were.
C13_Step ==
    pc \in { "frame", "replace", "write", "release", "ffmpeg" } =>
        /\ tile_positions' = tile_positions
        /\ source_images_A' = source_images_A
        /\ source_images_B' = source_images_B
        /\ tile_width' = tile_width /\ tile_height' = tile_height
        /\ pc = "frame" => replaced' = 0
        /\ pc = "replace" => replaced < plan.count /\ plan' = plan
        /\ \/ output_image' = output_image
           \/ /\ pc = "replace"
              /\ replaced' = replaced + 1
              /\ replaced' <= plan.count
              /\ \E p \in 1..Len(tile_positions) :
                    /\ SameOutside(output_image, output_image', tile_positions[p])
                    /\ tile_positions[p].y + tile_height <= output_height
                    /\ tile_positions[p].x + tile_width <= output_width

C13_ReplaceLocality == [][C13_Step]_vars

\* a step that planned two replacements has done both and changed the canvas
C13_Witness ==
    /\ pc = "write" /\ plan.planned /\ plan.count >= 2
    /\ replaced = plan.count
    /\ last_rep.done /\ last_rep.frame = frame_num
    /\ Len(tile_positions) >= 2
    /\ frames_written > 0 /\ last_frame # output_image

-----------------------------------------------------------------------------
\* C14: a run whose pools loaded emits exactly total_frames frames, one per step,
\* and releases the writer only after the last of them; stated on the runs that
\* have ended: such a run has written every frame and released the writer.
C14_AllFramesEmitted ==
    /\ frames_written <= total_frames
    /\ writer = "released" => frames_written = total_frames
    /\ PoolsLoaded(source_images_A, source_images_B) /\ pc \in { "exit", "crashed" } =>
          /\ frames_written = total_frames
          /\ writer = "released"

-----------------------------------------------------------------------------
\* the tile is the th x tw window of img whose top-left corner is (x, y)
IsWindow(tile, img, x, y) ==
    tile = [r \in 1..tile_height |->
               [c \in 1..tile_width |-> Pixel(img, y + r - 1, x + c - 1)]]

\* C15: the origin (x, y) of a crop returned by get_random_tile from a source
\* image H rows by W columns satisfies 0 <= x <= W - tw; for the sky zone
\* 0 <= y <= max(0, sourceHorizonY - th), the crop lying wholly above the source
\* horizon; for the field zone min(sourceHorizonY, H - th) <= y <= H - th.
C15_CropOrigin ==
    (sampler.stage = "ended" /\ sampler.result.kind = "crop") =>
        \E i \in 1..Len(sampler.source_images) :
            LET img == sampler.source_images[i]
                x == sampler.result.x
                y == sampler.result.y
                sourceHorizonY == (img.h * HORIZON_NUM) \div HORIZON_DEN
            IN  /\ img.id = sampler.result.src
                /\ IsWindow(sampler.result.tile, img, x, y)
                /\ 0 <= x /\ x <= img.w - tile_width
                /\ IF sampler.is_sky
                   THEN /\ 0 <= y /\ y <= Max(0, sourceHorizonY - tile_height)
                        /\ y + tile_height <= sourceHorizonY
                   ELSE /\ Min(sourceHorizonY, img.h - tile_height) <= y
                        /\ y <= img.h - tile_height

\* a sky crop at the lowest origin of its range, at the right edge of the image
C15_Witness ==
    /\ sampler.stage = "ended" /\ sampler.result.kind = "crop" /\ sampler.is_sky
    /\ sampler.result.y > 0 /\ sampler.result.x > 0
    /\ \E i \in 1..Len(sampler.source_images) :
          LET img == sampler.source_images[i]
          IN  /\ img.id = sampler.result.src
              /\ sampler.result.y + tile_height = HorizonY(img.h)
              /\ sampler.result.x + tile_width = img.w

-----------------------------------------------------------------------------
\* C16: in the static mosaic builder the crop of a slot that crosses the canvas
\* horizon has its vertical origin fixed at sourceHorizonY - floor(th *
\* (canvasHorizonY - y) / th), with nothing random in it.
C16_CrossingAligned ==
    (mode = "mosaic" /\ mosaic.zone = "crossing") =>
        LET sourceHorizonY == (mosaic.src.h * HORIZON_NUM) \div HORIZON_DEN
            canvasHorizonY == (output_height * HORIZON_NUM) \div HORIZON_DEN
        IN  /\ mosaic.random_y =
                  sourceHorizonY - (tile_height * (canvasHorizonY - mosaic.y)) \div tile_height
            /\ mosaic.sample_min_y = mosaic.sample_max_y

====
